---- MODULE Spec2Model ----
(***************************************************************************)
(* Model of src/script.js: the "find nearby hotels" page script.          *)
(*                                                                         *)
(* The page has one search button (findBtn), a status line (statusEl), a  *)
(* list view (hotelsList) and a Leaflet map (map, userMarker,             *)
(* hotelsLayer).  A click asks the platform for the position; the success *)
(* callback (re)initialises the map and starts fetchHotels, which awaits  *)
(* the HTTP response, then its JSON body, ranks the elements by distance  *)
(* and renders the six closest.                                           *)
(*                                                                         *)
(* Coordinates are whole degrees.  Distances are the values the haversine *)
(* code of distanceKm yields on that grid, tabulated in millimetres.      *)
(***************************************************************************)
EXTENDS Integers, Sequences, FiniteSets, TLC

VARIABLES
    geolocation,      \* navigator.geolocation is available (fixed per page)
    findBtnDisabled,  \* findBtn.disabled
    statusEl,         \* statusEl.textContent
    hotelsList,       \* cards of the list view, in document order
    map,              \* the Leaflet map: how often constructed, its centre
    userMarker,       \* the "You are here" marker
    hotelsLayer,      \* the layer group and the markers it holds
    geoRequests,      \* getCurrentPosition calls whose callback is pending
    fetches,          \* fetchHotels invocations suspended at an await
    last              \* history: the latest platform event and parsed data

vars == <<geolocation, findBtnDisabled, statusEl, hotelsList, map,
          userMarker, hotelsLayer, geoRequests, fetches, last>>

(***************************************************************************)
(* Bounds of the model.                                                    *)
(***************************************************************************)
MaxElems == 8

(***************************************************************************)
(* Program constants.                                                      *)
(***************************************************************************)
TopN == 6

UnnamedHotel == "Unnamed hotel (OpenStreetMap)"

WaitingText == "Waiting for search..."
GettingText == "Getting your location..."
SearchingText == "Searching for hotels nearby..."
FoundText == "Found N places, showing closest M."
NoResultsText == "No hotels found nearby. Try moving outside / closer to main road."
NetworkErrorText == "Error contacting map server. Check internet and try again."
LocationDeniedText == "Location permission denied or unavailable. Please enable location and try again."
UnsupportedText == "Geolocation not supported on this device."

\* A status line without numbers, and the "Found N places" line.
Status(text) == [text |-> text, n |-> 0, m |-> 0]

FoundStatus(n, m) == [text |-> FoundText, n |-> n, m |-> m]

(***************************************************************************)
(* distanceKm, lines 43-54, on whole-degree coordinates.  The value        *)
(* depends on lat1, lat2 and lon2 - lon1 only; row (lat1, lat2), column    *)
(* lon2 - lon1 of the table is the result in millimetres.                  *)
(***************************************************************************)
Lats == -1 .. 2

Lons == -1 .. 2

DistanceTable ==
 << <<333533962, 222355979, 111177991, 0, 111177991, 222355979, 333533962>>,
    <<351613162, 248629315, 157249381, 111194927, 157249381, 248629315, 351613162>>,
    <<400904917, 314498763, 248636890, 222389853, 248636890, 314498763, 400904917>>,
    <<471724184, 400900217, 351623876, 333584780, 351623876, 400900217, 471724184>>,
    <<351613162, 248629315, 157249381, 111194927, 157249381, 248629315, 351613162>>,
    <<333584780, 222389853, 111194927, 0, 111194927, 222389853, 333584780>>,
    <<351613162, 248629315, 157249381, 111194927, 157249381, 248629315, 351613162>>,
    <<400862624, 314474805, 248629315, 222389853, 248629315, 314474805, 400862624>>,
    <<400904917, 314498763, 248636890, 222389853, 248636890, 314498763, 400904917>>,
    <<351613162, 248629315, 157249381, 111194927, 157249381, 248629315, 351613162>>,
    <<333533962, 222355979, 111177991, 0, 111177991, 222355979, 333533962>>,
    <<351516741, 248568719, 157225432, 111194927, 157225432, 248568719, 351516741>>,
    <<471724184, 400900217, 351623876, 333584780, 351623876, 400900217, 471724184>>,
    <<400862624, 314474805, 248629315, 222389853, 248629315, 314474805, 400862624>>,
    <<351516741, 248568719, 157225432, 111194927, 157225432, 248568719, 351516741>>,
    <<333381523, 222254366, 111127188, 0, 111127188, 222254366, 333381523>> >>

\* lat1 written where lat2 belongs (lines 45 and 50).
distanceKm_Lat1Twice(lat1, lon1, lat2, lon2) ==
    DistanceTable[(lat1 + 1) * 4 + (lat1 + 1) + 1][(lon2 - lon1) + 4]

distanceKm(lat1, lon1, lat2, lon2) ==
    DistanceTable[(lat1 + 1) * 4 + (lat2 + 1) + 1][(lon2 - lon1) + 4]

\* Number.prototype.toFixed(2) of a distance: hundredths of a kilometre.
toFixed2(mm) == (mm + 5000) \div 10000

(***************************************************************************)
(* Response elements.  A field the JSON lacks has its has-flag FALSE; a    *)
(* name of "" stands for tags without a name.                              *)
(***************************************************************************)
Element(type, hasLat, lat, hasLon, lon, hasCenter, clat, clon, hasTags, name) ==
    [type |-> type, hasLat |-> hasLat, lat |-> lat, hasLon |-> hasLon,
     lon |-> lon, hasCenter |-> hasCenter, clat |-> clat, clon |-> clon,
     hasTags |-> hasTags, name |-> name]

PointEl(lat, lon, hasTags, name) ==
    Element("node", TRUE, lat, TRUE, lon, FALSE, 0, 0, hasTags, name)

AreaEl(type, clat, clon, hasTags, name) ==
    Element(type, FALSE, 0, FALSE, 0, TRUE, clat, clon, hasTags, name)

Catalogue ==
    << PointEl(0, 0, TRUE, "A"),
       PointEl(0, 1, FALSE, ""),
       PointEl(1, 0, TRUE, "C"),
       Element("node", FALSE, 0, FALSE, 0, FALSE, 0, 0, TRUE, "F"),
       AreaEl("way", 0, 2, TRUE, "H"),
       PointEl(1, 1, TRUE, "D"),
       AreaEl("way", 1, 2, TRUE, "E"),
       PointEl(2, 1, FALSE, ""),
       AreaEl("relation", 2, 2, TRUE, "G"),
       PointEl(1, 2, TRUE, ""),
       PointEl(2, 1, TRUE, "I"),
       AreaEl("way", -1, 1, TRUE, "J"),
       PointEl(1, -1, TRUE, "K"),
       Element("way", TRUE, 1, TRUE, 1, FALSE, 0, 0, TRUE, "L") >>

Strides == {1, 5}

\* The element list that starts at catalogue entry s and takes every d-th
\* entry, cyclically, n times.
Window(s, n, d) ==
    [i \in 1 .. n |-> Catalogue[((s - 1 + (i - 1) * d) % Len(Catalogue)) + 1]]

Responses ==
    {Window(s, n, d) : s \in 1 .. Len(Catalogue), n \in 0 .. MaxElems, d \in Strides}

\* What res.json() can settle with: a rejection (body not JSON, or no body
\* at all), an object without an elements member, or one with a list.
Bodies ==
    {[kind |-> k, hasElements |-> FALSE, elements |-> <<>>] :
        k \in {"malformed", "empty", "object"}}
    \cup {[kind |-> "object", hasElements |-> TRUE, elements |-> r] : r \in Responses}

ErrorCodes == {"PERMISSION_DENIED", "POSITION_UNAVAILABLE", "TIMEOUT"}

\* The coordinates a position fix can report.
Positions == {<<0, 0>>, <<1, 1>>}

(***************************************************************************)
(* fetchHotels, lines 79-107: the loop that resolves coordinates and names.*)
(***************************************************************************)
\* JavaScript truthiness of a numeric member: present and not 0.
Truthy(has, v) == has /\ v # 0

UsesOwn(el) == el.type = "node" /\ Truthy(el.hasLat, el.lat) /\ Truthy(el.hasLon, el.lon)

UsesCenter(el) == el.hasCenter /\ Truthy(TRUE, el.clat) /\ Truthy(TRUE, el.clon)

\* The continue of line 91 left out: every element is pushed.
Resolves_NoContinue(el) == TRUE

Resolves(el) == UsesOwn(el) \/ UsesCenter(el)

hLat(el) == IF UsesOwn(el) THEN el.lat ELSE el.clat

hLon(el) == IF UsesOwn(el) THEN el.lon ELSE el.clon

\* The placeholder of line 97 left out: the name tag is used as it is.
DisplayName_NoPlaceholder(el) == el.name

DisplayName(el) ==
    IF el.hasTags /\ el.name # "" THEN el.name ELSE UnnamedHotel

\* The entry pushed for element number i; idx records which element it is.
Entry(lat, lon, el, i) ==
    [name |-> DisplayName(el), lat |-> hLat(el), lon |-> hLon(el),
     distanceKm |-> distanceKm(lat, lon, hLat(el), hLon(el)), idx |-> i]

RECURSIVE CollectFrom(_, _, _, _)
CollectFrom(lat, lon, elements, i) ==
    IF i > Len(elements) THEN <<>>
    ELSE IF Resolves(elements[i])
         THEN <<Entry(lat, lon, elements[i], i)>>
                 \o CollectFrom(lat, lon, elements, i + 1)
         ELSE CollectFrom(lat, lon, elements, i + 1)

Collect(lat, lon, elements) == CollectFrom(lat, lon, elements, 1)

(***************************************************************************)
(* Lines 116-117: results.sort((a, b) => a.distanceKm - b.distanceKm),     *)
(* a stable sort, and results.slice(0, 6).                                 *)
(***************************************************************************)
Compare(a, b) == a.distanceKm - b.distanceKm

\* x goes behind every entry that does not compare greater than it.
Insert(s, x) ==
    LET k == Cardinality({j \in 1 .. Len(s) : Compare(s[j], x) <= 0})
    IN  SubSeq(s, 1, k) \o <<x>> \o SubSeq(s, k + 1, Len(s))

RECURSIVE Sort(_)
Sort(s) ==
    IF s = <<>> THEN <<>>
    ELSE Insert(Sort(SubSeq(s, 1, Len(s) - 1)), s[Len(s)])

Slice(s, n) == SubSeq(s, 1, IF Len(s) < n THEN Len(s) ELSE n)

(***************************************************************************)
(* renderHotels and plotHotelsOnMap: one card, one marker per hotel.       *)
(***************************************************************************)
Card(hotel) ==
    [name |-> hotel.name, distance |-> toFixed2(hotel.distanceKm),
     lat |-> hotel.lat, lon |-> hotel.lon, idx |-> hotel.idx]

Cards(hotels) == [i \in 1 .. Len(hotels) |-> Card(hotels[i])]

\* Line 133 left out: the new cards are appended to the old ones.
renderHotels_Appends(list, hotels) == list \o Cards(hotels)

\* Line 133 empties the list view, lines 135-156 append one card per hotel.
renderHotels(list, hotels) == <<>> \o Cards(hotels)

Marker(hotel) ==
    [name |-> hotel.name, distance |-> toFixed2(hotel.distanceKm),
     lat |-> hotel.lat, lon |-> hotel.lon, idx |-> hotel.idx]

plotHotelsOnMap(layer, hotels) ==
    IF ~layer.exists THEN layer
    ELSE [layer EXCEPT !.markers = [i \in 1 .. Len(hotels) |-> Marker(hotels[i])]]

(***************************************************************************)
(* initMap, lines 18-41.                                                   *)
(***************************************************************************)
initMapView(m, lat, lon) ==
    [made |-> IF m.made = 0 THEN 1 ELSE m.made, lat |-> lat, lon |-> lon]

\* Line 31 left out: an existing user marker stays where it is.
initUserMarker_NotMoved(u, lat, lon) ==
    IF u.made = 0 THEN [made |-> 1, lat |-> lat, lon |-> lon] ELSE u

initUserMarker(u, lat, lon) ==
    [made |-> IF u.made = 0 THEN 1 ELSE u.made, lat |-> lat, lon |-> lon]

\* Line 37 left out: an existing layer keeps its markers.
initHotelsLayer_NotCleared(layer) ==
    [exists |-> TRUE, made |-> IF layer.exists THEN layer.made ELSE layer.made + 1,
     markers |-> layer.markers]

initHotelsLayer(layer) ==
    [exists |-> TRUE, made |-> IF layer.exists THEN layer.made ELSE layer.made + 1,
     markers |-> <<>>]

(***************************************************************************)
(* The page after DOMContentLoaded, lines 14-16 and 203-208.  The history *)
(* variable starts afresh with every search.                               *)
(***************************************************************************)
NoSearch == [event |-> "none", lat |-> 0, lon |-> 0, elements |-> <<>>,
             ranked |-> <<>>, total |-> 0]

Init ==
    /\ geolocation \in BOOLEAN
    /\ findBtnDisabled = FALSE
    /\ statusEl = Status(WaitingText)
    /\ hotelsList = <<>>
    /\ map = [made |-> 0, lat |-> 0, lon |-> 0]
    /\ userMarker = [made |-> 0, lat |-> 0, lon |-> 0]
    /\ hotelsLayer = [exists |-> FALSE, made |-> 0, markers |-> <<>>]
    /\ geoRequests = 0
    /\ fetches = <<>>
    /\ last = NoSearch

Remove(s, i) == SubSeq(s, 1, i - 1) \o SubSeq(s, i + 1, Len(s))

(***************************************************************************)
(* getLocationAndSearch, lines 171-201: the click handler.  A disabled     *)
(* button dispatches no click.                                             *)
(***************************************************************************)
\* The capability test moved behind line 178: the early return leaves the
\* button disabled.
ClickUnsupported_AfterDisable ==
    /\ ~findBtnDisabled
    /\ ~geolocation
    /\ statusEl' = Status(UnsupportedText)
    /\ findBtnDisabled' = TRUE
    /\ last' = [last EXCEPT !.event = "unsupported"]
    /\ UNCHANGED <<geolocation, hotelsList, map, userMarker,
                   hotelsLayer, geoRequests, fetches>>

ClickUnsupported ==
    /\ ~findBtnDisabled
    /\ ~geolocation
    /\ statusEl' = Status(UnsupportedText)
    /\ last' = [last EXCEPT !.event = "unsupported"]
    /\ UNCHANGED <<geolocation, findBtnDisabled, hotelsList, map, userMarker,
                   hotelsLayer, geoRequests, fetches>>

\* Line 178 left out: the button stays enabled during the search.
DisabledAfterClick_NotSet == FALSE

DisabledAfterClick == TRUE

ClickRequestsPosition ==
    /\ ~findBtnDisabled
    /\ geolocation
    /\ statusEl' = Status(GettingText)
    /\ findBtnDisabled' = DisabledAfterClick
    /\ geoRequests' = geoRequests + 1
    /\ last' = [NoSearch EXCEPT !.event = "click"]
    /\ UNCHANGED <<geolocation, hotelsList, map, userMarker, hotelsLayer, fetches>>

(***************************************************************************)
(* The success callback, lines 181-189: initMap, then fetchHotels up to    *)
(* its first await (line 75).                                              *)
(***************************************************************************)
PositionSuccess(lat, lon) ==
    /\ geoRequests > 0
    /\ geoRequests' = geoRequests - 1
    /\ map' = initMapView(map, lat, lon)
    /\ userMarker' = initUserMarker(userMarker, lat, lon)
    /\ hotelsLayer' = initHotelsLayer(hotelsLayer)
    /\ statusEl' = Status(SearchingText)
    /\ fetches' = Append(fetches, [lat |-> lat, lon |-> lon, stage |-> "fetch"])
    /\ last' = [last EXCEPT !.event = "fix"]
    /\ UNCHANGED <<geolocation, findBtnDisabled, hotelsList>>

(***************************************************************************)
(* The error callback, lines 190-195.                                      *)
(***************************************************************************)
\* Line 194 left out: the button stays disabled after a location error.
DisabledAfterPositionError_NotReset == TRUE

DisabledAfterPositionError == FALSE

\* The error callback also empties the list view.
PositionError_ClearsList(code) ==
    /\ geoRequests > 0
    /\ geoRequests' = geoRequests - 1
    /\ statusEl' = Status(LocationDeniedText)
    /\ findBtnDisabled' = DisabledAfterPositionError
    /\ hotelsList' = <<>>
    /\ last' = [last EXCEPT !.event = code]
    /\ UNCHANGED <<geolocation, map, userMarker, hotelsLayer, fetches>>

PositionError(code) ==
    /\ geoRequests > 0
    /\ geoRequests' = geoRequests - 1
    /\ statusEl' = Status(LocationDeniedText)
    /\ findBtnDisabled' = DisabledAfterPositionError
    /\ last' = [last EXCEPT !.event = code]
    /\ UNCHANGED <<geolocation, hotelsList, map, userMarker, hotelsLayer, fetches>>

(***************************************************************************)
(* fetchHotels's catch block, lines 124-129, followed by the finally       *)
(* callback of line 186-188.                                               *)
(***************************************************************************)
\* Line 128 left out: the catch block keeps the old cards.
ListAfterCatch_Kept(list) == list

ListAfterCatch(list) == <<>>

\* A retry: the catch block issues the query again.
Catch_Retries(i, event) ==
    /\ statusEl' = Status(NetworkErrorText)
    /\ hotelsList' = ListAfterCatch(hotelsList)
    /\ fetches' = [fetches EXCEPT ![i].stage = "fetch"]
    /\ findBtnDisabled' = FALSE
    /\ last' = [last EXCEPT !.event = event]
    /\ UNCHANGED <<geolocation, map, userMarker, hotelsLayer, geoRequests>>

Catch(i, event) ==
    /\ statusEl' = Status(NetworkErrorText)
    /\ hotelsList' = ListAfterCatch(hotelsList)
    /\ fetches' = Remove(fetches, i)
    /\ findBtnDisabled' = FALSE
    /\ last' = [last EXCEPT !.event = event]
    /\ UNCHANGED <<geolocation, map, userMarker, hotelsLayer, geoRequests>>

(***************************************************************************)
(* await fetch(url) settles, lines 75-76.                                  *)
(***************************************************************************)
FetchRejects(i) ==
    /\ i \in 1 .. Len(fetches)
    /\ fetches[i].stage = "fetch"
    /\ Catch(i, "transport")

FetchNotOk(i) ==
    /\ i \in 1 .. Len(fetches)
    /\ fetches[i].stage = "fetch"
    /\ Catch(i, "http")

FetchOk(i) ==
    /\ i \in 1 .. Len(fetches)
    /\ fetches[i].stage = "fetch"
    /\ fetches' = [fetches EXCEPT ![i].stage = "json"]
    /\ last' = [last EXCEPT !.event = "response"]
    /\ UNCHANGED <<geolocation, findBtnDisabled, statusEl, hotelsList, map,
                   userMarker, hotelsLayer, geoRequests>>

(***************************************************************************)
(* await res.json() settles, lines 77-123.                                 *)
(***************************************************************************)
\* A body that does not parse handled like an empty element list.
JsonRejects_AsNoResults(i, body) ==
    /\ i \in 1 .. Len(fetches)
    /\ fetches[i].stage = "json"
    /\ body.kind # "object"
    /\ statusEl' = Status(NoResultsText)
    /\ hotelsList' = <<>>
    /\ fetches' = Remove(fetches, i)
    /\ findBtnDisabled' = FALSE
    /\ last' = [last EXCEPT !.event = body.kind]
    /\ UNCHANGED <<geolocation, map, userMarker, hotelsLayer, geoRequests>>

JsonRejects(i, body) ==
    /\ i \in 1 .. Len(fetches)
    /\ fetches[i].stage = "json"
    /\ body.kind # "object"
    /\ Catch(i, body.kind)

JsonParsed(i, body) ==
    /\ i \in 1 .. Len(fetches)
    /\ fetches[i].stage = "json"
    /\ body.kind = "object"
    /\ LET lat == fetches[i].lat
           lon == fetches[i].lon
           elements == IF body.hasElements THEN body.elements ELSE <<>>
           results == Collect(lat, lon, elements)
           top == Slice(Sort(results), TopN)
       IN  /\ IF Len(results) = 0
              THEN /\ statusEl' = Status(NoResultsText)
                   /\ hotelsList' = <<>>
                   /\ hotelsLayer' = hotelsLayer
              ELSE /\ hotelsList' = renderHotels(hotelsList, top)
                   /\ hotelsLayer' = plotHotelsOnMap(hotelsLayer, top)
                   /\ statusEl' = FoundStatus(Len(results), Len(top))
           /\ last' = [event |-> "parsed", lat |-> lat, lon |-> lon,
                       elements |-> elements,
                       ranked |-> IF Len(results) = 0 THEN <<>> ELSE top,
                       total |-> Len(results)]
    /\ fetches' = Remove(fetches, i)
    /\ findBtnDisabled' = FALSE
    /\ UNCHANGED <<geolocation, map, userMarker, geoRequests>>

Next ==
    \/ ClickUnsupported
    \/ ClickRequestsPosition
    \/ \E pos \in Positions : PositionSuccess(pos[1], pos[2])
    \/ \E code \in ErrorCodes : PositionError(code)
    \/ \E i \in 1 .. Len(fetches) : FetchRejects(i)
    \/ \E i \in 1 .. Len(fetches) : FetchNotOk(i)
    \/ \E i \in 1 .. Len(fetches) : FetchOk(i)
    \/ \E i \in 1 .. Len(fetches), body \in Bodies : JsonRejects(i, body)
    \/ \E i \in 1 .. Len(fetches), body \in Bodies : JsonParsed(i, body)

Spec == Init /\ [][Next]_vars

(***************************************************************************)
(* The platform invokes one of the two position callbacks of every         *)
(* request, and every fetch and every body read settles.  Whether a search *)
(* ends does not depend on what the response holds, so the bodies of this  *)
(* specification are those with the consecutive element lists.             *)
(***************************************************************************)
LiveBodies ==
    {b \in Bodies :
        b.elements \in {Window(s, n, 1) : s \in 1 .. Len(Catalogue), n \in 0 .. MaxElems}}

PositionCallback ==
    \/ \E pos \in Positions : PositionSuccess(pos[1], pos[2])
    \/ \E code \in ErrorCodes : PositionError(code)

FetchSettles ==
    \E i \in 1 .. Len(fetches) : FetchRejects(i) \/ FetchNotOk(i) \/ FetchOk(i)

JsonSettles ==
    \E i \in 1 .. Len(fetches), body \in LiveBodies :
        JsonRejects(i, body) \/ JsonParsed(i, body)

LiveNext ==
    \/ ClickUnsupported
    \/ ClickRequestsPosition
    \/ \E pos \in Positions : PositionSuccess(pos[1], pos[2])
    \/ \E code \in ErrorCodes : PositionError(code)
    \/ \E i \in 1 .. Len(fetches) : FetchRejects(i)
    \/ \E i \in 1 .. Len(fetches) : FetchNotOk(i)
    \/ \E i \in 1 .. Len(fetches) : FetchOk(i)
    \/ \E i \in 1 .. Len(fetches), body \in LiveBodies : JsonRejects(i, body)
    \/ \E i \in 1 .. Len(fetches), body \in LiveBodies : JsonParsed(i, body)

LiveSpec ==
    /\ Init /\ [][LiveNext]_vars
    /\ WF_vars(PositionCallback)
    /\ WF_vars(FetchSettles)
    /\ WF_vars(JsonSettles)

(***************************************************************************)
(* The flow states of the search, read off the program state.              *)
(***************************************************************************)
AcquiringLocation == geoRequests > 0

Searching == Len(fetches) > 0

Idle == ~AcquiringLocation /\ ~Searching

TerminalTexts ==
    {FoundText, NoResultsText, NetworkErrorText, LocationDeniedText}

\* C1: between handler executions the search control is disabled exactly
\* while a location request or a hotel query is outstanding; it is enabled
\* initially and under every terminal status, disabled under the two
\* in-progress statuses.
C1_DisabledExactlyWhileInFlight ==
    /\ findBtnDisabled <=> (AcquiringLocation \/ Searching)
    /\ statusEl.text \in TerminalTexts \cup {WaitingText, UnsupportedText}
          => ~findBtnDisabled
    /\ statusEl.text \in {GettingText, SearchingText} => findBtnDisabled

\* A second search has reached the body read while the list still shows the
\* first search's cards.
C1_Witness ==
    /\ findBtnDisabled
    /\ Len(fetches) = 1 /\ fetches[1].stage = "json"
    /\ hotelsList # <<>>

\* C2: at most one search is in flight: outstanding location requests plus
\* outstanding network queries never exceed one.
C2_AtMostOneInFlight == geoRequests + Len(fetches) <= 1

\* A location request is outstanding after an earlier search has rendered.
C2_Witness == geoRequests = 1 /\ hotelsList # <<>> /\ map.made = 1

\* C3: under the fairness of LiveSpec every search that has left Idle comes
\* back to Idle with the control enabled and one of the four outcome
\* statuses shown.
C3_SearchTerminates ==
    (AcquiringLocation \/ Searching)
        ~> (Idle /\ ~findBtnDisabled /\ statusEl.text \in TerminalTexts)

\* A search has come back to Idle with the network-error outcome.
C3_Witness ==
    Idle /\ ~findBtnDisabled /\ last.event = "http"
         /\ statusEl.text = NetworkErrorText

\* C4: after a location failure (capability missing, or the error callback
\* with any error code) the control is enabled, the status is the failure
\* message of that kind, the two messages differ, and nothing is in flight:
\* no network query has been issued.
C4_LocationFailure ==
    /\ last.event = "unsupported" =>
          /\ statusEl = Status(UnsupportedText)
          /\ ~findBtnDisabled /\ geoRequests = 0 /\ fetches = <<>>
    /\ last.event \in ErrorCodes =>
          /\ statusEl = Status(LocationDeniedText)
          /\ ~findBtnDisabled /\ geoRequests = 0 /\ fetches = <<>>
    /\ UnsupportedText # LocationDeniedText

\* The position request of a later search timed out; the cards of the
\* earlier search are still shown.
C4_Witness ==
    last.event = "TIMEOUT" /\ hotelsList # <<>> /\ statusEl.text = LocationDeniedText

\* C5: after a transport failure or a non-success HTTP status the status is
\* the network-error message, the list view and the marker layer are empty
\* and the control is enabled.
C5_NetworkError ==
    last.event \in {"transport", "http"} =>
        /\ statusEl = Status(NetworkErrorText)
        /\ hotelsList = <<>>
        /\ hotelsLayer.markers = <<>>
        /\ ~findBtnDisabled /\ Idle

\* A non-success HTTP status has ended a search.
C5_Witness ==
    last.event = "http" /\ hotelsList = <<>> /\ hotelsLayer.exists /\ ~findBtnDisabled

\* An element carries a coordinate the resolution policy can use: a point
\* feature its own latitude and longitude, any feature a center.
HasUsableCoordinate(el) ==
    (el.type = "node" /\ el.hasLat /\ el.hasLon) \/ el.hasCenter

\* C6: when the parsed response has no element with a usable coordinate,
\* the status is the no-results message and the list view and the marker
\* layer are empty.
C6_NoResults ==
    (last.event = "parsed"
       /\ \A i \in 1 .. Len(last.elements) : ~HasUsableCoordinate(last.elements[i]))
    => /\ statusEl = Status(NoResultsText)
       /\ hotelsList = <<>>
       /\ hotelsLayer.markers = <<>>

\* A response whose only element has no coordinate at all has been parsed.
C6_Witness ==
    /\ last.event = "parsed" /\ Len(last.elements) = 1
    /\ ~HasUsableCoordinate(last.elements[1])
    /\ statusEl.text = NoResultsText

\* C7 as stated: a success response whose body does not parse (malformed or
\* empty) ends with the no-results message.
C7_UnparsableIsNoResults ==
    last.event \in {"malformed", "empty"} => statusEl = Status(NoResultsText)

\* C7 amended: a body that does not parse ends in NetworkError (network
\* error message, list view empty, control enabled); a body that parses but
\* has no elements ends in NoResults.
C7_UnparsableIsNetworkError ==
    /\ last.event \in {"malformed", "empty"} =>
          /\ statusEl = Status(NetworkErrorText)
          /\ hotelsList = <<>>
          /\ ~findBtnDisabled
    /\ (last.event = "parsed" /\ last.elements = <<>>) =>
          statusEl = Status(NoResultsText)

\* A malformed body has ended a search.
C7_Witness == last.event = "malformed" /\ statusEl.text = NetworkErrorText

\* The coordinate the resolution policy gives an element, and its distance
\* from the user of the latest search.
PolicyLat(el) == IF el.type = "node" /\ el.hasLat /\ el.hasLon THEN el.lat ELSE el.clat

PolicyLon(el) == IF el.type = "node" /\ el.hasLat /\ el.hasLon THEN el.lon ELSE el.clon

PolicyDistance(el) == distanceKm(last.lat, last.lon, PolicyLat(el), PolicyLon(el))

Usable(elements) == {i \in 1 .. Len(elements) : HasUsableCoordinate(elements[i])}

Shown(seq) == {seq[j].idx : j \in 1 .. Len(seq)}

\* C8: the ranked output is sorted non-decreasing by distance, its length is
\* min(6, number of elements with a usable coordinate), and no omitted
\* element with a usable coordinate is strictly closer than an included one.
C8_RankedSortedCappedClosest ==
    last.event = "parsed" =>
        LET r == last.ranked
            usable == Usable(last.elements)
        IN  /\ \A j \in 1 .. Len(r) - 1 : r[j].distanceKm <= r[j + 1].distanceKm
            /\ Len(r) = (IF Cardinality(usable) < 6 THEN Cardinality(usable) ELSE 6)
            /\ \A i \in usable \ Shown(r) : \A j \in 1 .. Len(r) :
                   ~(PolicyDistance(last.elements[i]) < r[j].distanceKm)

\* An element has neither its own latitude and longitude nor a center.
Bare(el) == ~(el.hasLat /\ el.hasLon) /\ ~el.hasCenter

BareOf(elements) == {i \in 1 .. Len(elements) : Bare(elements[i])}

\* C9: an element with neither its own latitude/longitude nor a center is
\* not in the ranked output, not in the list view, not among the result
\* markers, and not counted in the reported total.
C9_BareElementNeverShown ==
    last.event = "parsed" =>
        LET bare == BareOf(last.elements)
        IN  /\ Shown(last.ranked) \cap bare = {}
            /\ Shown(hotelsList) \cap bare = {}
            /\ Shown(hotelsLayer.markers) \cap bare = {}
            /\ last.total <= Len(last.elements) - Cardinality(bare)
            /\ statusEl.n <= Len(last.elements) - Cardinality(bare)

\* A response with an element without any coordinate has been rendered.
C9_Witness ==
    /\ last.event = "parsed"
    /\ BareOf(last.elements) # {}
    /\ hotelsList # <<>> /\ hotelsLayer.markers # <<>>
    /\ statusEl.text = FoundText

Names(seq) == [j \in 1 .. Len(seq) |-> seq[j].name]

\* C10: (for responses of at most six elements) every point feature with a
\* latitude and a longitude is in the ranked output with its own
\* coordinate, every area feature with a center is in it with the center;
\* and with the user at (0,0) and the candidates A (0,0), unnamed (0,1),
\* C (1,0) the ranked output is A, C, unnamed.
C10_EveryCoordinateEnters ==
    last.event = "parsed" =>
        LET r == last.ranked
            els == last.elements
        IN  /\ Len(els) <= TopN =>
                  \A i \in 1 .. Len(els) :
                     /\ (els[i].type = "node" /\ els[i].hasLat /\ els[i].hasLon) =>
                           \E j \in 1 .. Len(r) :
                               r[j].idx = i /\ r[j].lat = els[i].lat /\ r[j].lon = els[i].lon
                     /\ (els[i].type # "node" /\ els[i].hasCenter) =>
                           \E j \in 1 .. Len(r) :
                               r[j].idx = i /\ r[j].lat = els[i].clat /\ r[j].lon = els[i].clon
            /\ (last.lat = 0 /\ last.lon = 0 /\ els = Window(1, 3, 1)) =>
                  Names(r) = <<"A", "C", UnnamedHotel>>

\* C11: every entry of the ranked output, every card and every marker shows
\* the name tag of its element when the element has one and the placeholder
\* otherwise; no shown name is empty.
C11_NameOrPlaceholder ==
    /\ \A j \in 1 .. Len(hotelsList) : hotelsList[j].name # ""
    /\ \A j \in 1 .. Len(hotelsLayer.markers) : hotelsLayer.markers[j].name # ""
    /\ last.event = "parsed" =>
        \A seq \in {last.ranked, hotelsList, hotelsLayer.markers} :
            \A j \in 1 .. Len(seq) :
                LET el == last.elements[seq[j].idx]
                IN  /\ seq[j].name # ""
                    /\ (el.hasTags /\ el.name # "") => seq[j].name = el.name
                    /\ ~(el.hasTags /\ el.name # "") => seq[j].name = UnnamedHotel

\* A rendered response shows one hotel under its name tag and one under the
\* placeholder.
C11_Witness ==
    /\ last.event = "parsed"
    /\ \E j \in 1 .. Len(hotelsList) : hotelsList[j].name = UnnamedHotel
    /\ \E j \in 1 .. Len(hotelsList) : hotelsList[j].name = "D"
    /\ Len(hotelsLayer.markers) = Len(hotelsList)

\* C12: distanceKm is symmetric, zero from a point to itself and never
\* negative, for all coordinate pairs of the grid; in particular the
\* distance stored with a ranked hotel is also the distance from the hotel
\* back to the user.
C12_DistanceSymmetric ==
    /\ \A lat1 \in Lats, lon1 \in Lons, lat2 \in Lats, lon2 \in Lons :
          /\ distanceKm(lat1, lon1, lat2, lon2) = distanceKm(lat2, lon2, lat1, lon1)
          /\ distanceKm(lat1, lon1, lat2, lon2) >= 0
          /\ distanceKm(lat1, lon1, lat1, lon1) = 0
    /\ last.event = "parsed" =>
          \A j \in 1 .. Len(last.ranked) :
              LET h == last.ranked[j]
              IN  /\ h.distanceKm = distanceKm(h.lat, h.lon, last.lat, last.lon)
                  /\ h.distanceKm >= 0
                  /\ (h.lat = last.lat /\ h.lon = last.lon) => h.distanceKm = 0

\* The ranked output holds a hotel at the user's own coordinate and one at
\* another latitude and longitude.
C12_Witness ==
    /\ last.event = "parsed"
    /\ \E j \in 1 .. Len(last.ranked) :
          last.ranked[j].lat = last.lat /\ last.ranked[j].lon = last.lon
    /\ \E j \in 1 .. Len(last.ranked) :
          last.ranked[j].lat # last.lat /\ last.ranked[j].lon # last.lon

\* The hotels a view shows, as a set.
HotelsOf(seq) == {seq[j] : j \in 1 .. Len(seq)}

InSync == HotelsOf(hotelsList) = HotelsOf(hotelsLayer.markers)

\* C13 as stated: after every step the hotels of the list view are the
\* hotels of the result markers.
C13_AlwaysInSync == InSync

\* C13 amended: after every step the result markers show exactly the hotels
\* of the list view, or they show nothing while the query of a search is
\* outstanding (initMap has cleared them, the list view is not yet rebuilt).
C13_InSyncOrClearedWhileSearching ==
    InSync \/ (Searching /\ hotelsLayer.markers = <<>>)

\* The query of a second search is outstanding: the list view still shows
\* the first search's hotels, the marker layer is empty.
C13_Witness ==
    /\ Searching
    /\ hotelsList # <<>>
    /\ hotelsLayer.markers = <<>>

\* C14: after a search that ends in Rendered the list view and the marker
\* layer hold, in order, exactly one item per entry of that search's ranked
\* output and nothing else; in every state each holds at most 6 items.
C14_FullReplace ==
    /\ Len(hotelsList) <= 6
    /\ Len(hotelsLayer.markers) <= 6
    /\ statusEl.text = FoundText =>
          /\ Len(last.ranked) \in 1 .. 6
          /\ Len(hotelsList) = Len(last.ranked)
          /\ Len(hotelsLayer.markers) = Len(last.ranked)
          /\ \A j \in 1 .. Len(last.ranked) :
                /\ hotelsList[j].idx = last.ranked[j].idx
                /\ hotelsList[j].name = last.ranked[j].name
                /\ hotelsList[j].lat = last.ranked[j].lat
                /\ hotelsList[j].lon = last.ranked[j].lon
                /\ hotelsLayer.markers[j].idx = last.ranked[j].idx
                /\ hotelsLayer.markers[j].name = last.ranked[j].name
                /\ hotelsLayer.markers[j].lat = last.ranked[j].lat
                /\ hotelsLayer.markers[j].lon = last.ranked[j].lon

\* A response with more than six resolved elements has been rendered: six
\* cards and six markers.
C14_Witness ==
    /\ statusEl.text = FoundText
    /\ last.total > 6
    /\ Len(hotelsList) = 6 /\ Len(hotelsLayer.markers) = 6

\* The success callback has run in this step: a query has been issued.
FixStep == Len(fetches') > Len(fetches)

MapObjectsState ==
    /\ map.made <= 1 /\ userMarker.made <= 1 /\ hotelsLayer.made <= 1
    /\ userMarker.made = map.made /\ hotelsLayer.made = map.made
    /\ hotelsLayer.exists <=> hotelsLayer.made = 1
    /\ map.made = 0 => (hotelsList = <<>> /\ hotelsLayer.markers = <<>> /\ ~Searching)
    /\ Searching =>
          /\ map.made = 1
          /\ userMarker.lat = fetches[1].lat /\ userMarker.lon = fetches[1].lon
          /\ map.lat = fetches[1].lat /\ map.lon = fetches[1].lon

MapObjectsStep ==
    /\ FixStep =>
          LET fix == fetches'[Len(fetches')]
          IN  /\ map'.made = 1 /\ userMarker'.made = 1 /\ hotelsLayer'.made = 1
              /\ map'.lat = fix.lat /\ map'.lon = fix.lon
              /\ userMarker'.lat = fix.lat /\ userMarker'.lon = fix.lon
    /\ ~FixStep =>
          /\ map' = map /\ userMarker' = userMarker
          /\ hotelsLayer'.made = hotelsLayer.made
          /\ hotelsLayer'.exists = hotelsLayer.exists

\* C15: the map, the user marker and the result layer do not exist
\* initially, are each constructed at most once and together, at the first
\* successful location fix; every successful fix leaves the one map centred
\* on and the one user marker placed at the coordinate of that fix, and no
\* other step creates, recentres or moves them.
C15_CreatedOnceThenMoved ==
    /\ map.made = 0 /\ userMarker.made = 0 /\ hotelsLayer.made = 0
    /\ []MapObjectsState
    /\ [][MapObjectsStep]_vars

\* A second successful fix, at (0,0), has moved the one user marker; the
\* list view still shows a hotel at distance 0 from the earlier fix at (1,1).
C15_Witness ==
    /\ Searching
    /\ \E j \in 1 .. Len(hotelsList) :
          hotelsList[j].lat = 1 /\ hotelsList[j].lon = 1 /\ hotelsList[j].distance = 0
    /\ userMarker.made = 1 /\ map.made = 1
    /\ userMarker.lat = 0 /\ userMarker.lon = 0

FailureEvents == ErrorCodes \cup {"unsupported", "transport", "http", "malformed", "empty"}

\* C16: a location request is issued only by an activation of the enabled
\* control, one per activation; a network query is issued only by the
\* success callback of a pending location request, one per request; and a
\* failure leaves nothing outstanding, so nothing is retried until the next
\* activation.
C16_OneRequestThenOneQuery ==
    [][ /\ geoRequests' > geoRequests =>
              /\ ~findBtnDisabled
              /\ geoRequests' = geoRequests + 1
              /\ fetches' = fetches
        /\ Len(fetches') > Len(fetches) =>
              /\ geoRequests > 0
              /\ geoRequests' = geoRequests - 1
              /\ Len(fetches') = Len(fetches) + 1
        /\ (last'.event \in FailureEvents /\ last' # last) =>
              /\ geoRequests' = 0
              /\ fetches' = <<>>
      ]_vars

\* A search has failed in transport after its location request succeeded;
\* nothing is outstanding.
C16_Witness ==
    /\ last.event = "transport"
    /\ map.made = 1
    /\ geoRequests = 0 /\ fetches = <<>>

\* Where element number i stands in the ranked output (0: not in it).
Place(r, i) ==
    IF i \in Shown(r) THEN CHOOSE j \in 1 .. Len(r) : r[j].idx = i ELSE 0

\* C17: of two candidates with a usable coordinate at equal distance from
\* the user, the one earlier in the response stands earlier in the ranked
\* output, and the later one is never kept while the earlier one is left out.
C17_StableRanking ==
    last.event = "parsed" =>
        LET r == last.ranked
            els == last.elements
        IN  \A i \in Usable(els), k \in Usable(els) :
                (i < k /\ PolicyDistance(els[i]) = PolicyDistance(els[k])) =>
                    /\ k \in Shown(r) => i \in Shown(r)
                    /\ (i \in Shown(r) /\ k \in Shown(r)) => Place(r, i) < Place(r, k)

\* C18: under the "Found N places, showing closest M." status N is the
\* number of response elements with a usable coordinate, N >= 1, and
\* M = min(6, N) is the number of cards and the number of markers.
C18_FoundCounts ==
    statusEl.text = FoundText =>
        LET N == Cardinality(Usable(last.elements))
        IN  /\ statusEl.n = N
            /\ N >= 1
            /\ statusEl.m = (IF N < 6 THEN N ELSE 6)
            /\ statusEl.m = Len(hotelsList)
            /\ statusEl.m = Len(hotelsLayer.markers)

\* C19: whenever the search control is enabled the hotels of the list view
\* are exactly the hotels of the result markers; the two views differ only
\* while a location request or a query is outstanding.
C19_InSyncWhenIdle ==
    /\ ~findBtnDisabled => InSync
    /\ ~InSync => (AcquiringLocation \/ Searching)

\* The control is enabled after a search that failed to get a position; both
\* views still show the hotels of the search before it.
C19_Witness ==
    /\ ~findBtnDisabled
    /\ last.event = "POSITION_UNAVAILABLE"
    /\ hotelsList # <<>>
    /\ Len(hotelsLayer.markers) = Len(hotelsList)

\* C20: the steps of a search that ends in a location failure (the click,
\* and the error callback or the unsupported return) leave the list view,
\* the result markers, the user marker and the map as they were, and issue
\* no query.
C20_LocationFailureFrame ==
    [][ (last'.event \in ErrorCodes \cup {"unsupported", "click"} /\ last' # last) =>
            /\ hotelsList' = hotelsList
            /\ hotelsLayer' = hotelsLayer
            /\ userMarker' = userMarker
            /\ map' = map
            /\ fetches' = fetches
      ]_vars

\* Permission was denied to a later search: the cards and markers of the
\* earlier search stand next to the location-failure message.
C20_Witness ==
    /\ last.event = "PERMISSION_DENIED"
    /\ statusEl.text = LocationDeniedText
    /\ hotelsList # <<>> /\ hotelsLayer.markers # <<>>
    /\ userMarker.made = 1

====
